---- MODULE Spec2Model ----
(***************************************************************************)
(* Model of PythonMeshtasticClient: the device initializer                 *)
(* (initializeMeshtasticDevice.py) and the interactive client              *)
(* (meshtastic_client.py).                                                 *)
(*                                                                         *)
(* Strings of the programs are kept as atoms.  An input line is the        *)
(* sequence of its whitespace-separated words.  A call into the meshtastic *)
(* library, the meshtastic CLI or the device is an external step whose     *)
(* outcome (success or a raised error) is chosen nondeterministically.     *)
(***************************************************************************)
EXTENDS Integers, Sequences, FiniteSets, TLC

\* ------------------------------------------------------------------ bounds
\* How many times in a row a program is run against the same device.
MaxPasses == 2
\* Channel slots of the device.
MaxSlots == 3

\* ------------------------------------------------------- values and tables
\* os.getenv() of a variable that is not set.
None == "<None>"

\* Names of the region enum the meshtastic library exposes
\* (RegionCode.__members__), "UNSET" being its placeholder.
RegionNames == {"UNSET", "US", "EU868", "ANZ"}

\* The roles set_role accepts.
valid_roles == {"CLIENT", "CLIENT_MUTE", "ROUTER", "REPEATER", "TRACKER", "SENSOR"}

\* Environment of a run: what the operator may have exported.
OwnerChoices == {<<None, None>>, <<"Alice", None>>}
RegionChoices == {None, "", "EU", "EU868", " EU868 ", "eu868", "MARS"}
RoleChoices == {None, "ROUTER", "Router", "BOGUS"}
PositionChoices == {None, "true"}
WifiChoices == {<<None, None>>, <<"net", "">>, <<"net", "pw">>}
ChannelChoices == {<<None, None, None>>, <<"x", "Ops", "random">>}

Environments ==
    { [MESHTASTIC_OWNER_LONG |-> o[1], MESHTASTIC_OWNER_SHORT |-> o[2],
       MESHTASTIC_REGION |-> r, MESHTASTIC_DEVICE_ROLE |-> ro,
       MESHTASTIC_POSITION_BROADCAST |-> p,
       MESHTASTIC_WIFI_SSID |-> w[1], MESHTASTIC_WIFI_PSK |-> w[2],
       MESHTASTIC_CHANNEL_INDEX |-> c[1], MESHTASTIC_CHANNEL_NAME |-> c[2],
       MESHTASTIC_CHANNEL_PSK |-> c[3]] :
        o \in OwnerChoices, r \in RegionChoices, ro \in RoleChoices,
        p \in PositionChoices, w \in WifiChoices, c \in ChannelChoices }

\* A channel slot of localNode.channels; its index is its position minus one.
\* A name is the sequence of its words, the empty name being <<>>.
Slot(name, psk, uplink, downlink, role) ==
    [name |-> name, psk |-> psk, uplink |-> uplink, downlink |-> downlink, role |-> role]
PrimarySlot == Slot(<<>>, "AQ==", FALSE, FALSE, "PRIMARY")
FreeSlot == Slot(<<>>, "", FALSE, FALSE, "DISABLED")

\* A fresh device: the unnamed primary channel and free slots.
FreshChannels == [i \in 1..MaxSlots |-> IF i = 1 THEN PrimarySlot ELSE FreeSlot]
\* A device on which two slots carry the same name.
TwinChannels ==
    [i \in 1..MaxSlots |->
        IF i = 1 THEN PrimarySlot
        ELSE IF i <= 3 THEN Slot(<<"Ops">>, "plain", TRUE, TRUE, "SECONDARY")
        ELSE FreeSlot]
\* The channel list before the device has reported any channel.
NoChannels == <<>>

\* The device's configuration as it stands before the first run.
Device(region, channels) ==
    [owner |-> <<"Bob", "BO">>, region |-> region, role |-> "CLIENT",
     position |-> "true", wifi |-> <<"false", None, None>>, channels |-> channels]

Devices ==
    { Device("UNSET", FreshChannels), Device("EU868", FreshChannels),
      Device("EU868", TwinChannels), Device("UNSET", NoChannels) }

\* Outcomes of one invocation of the meshtastic CLI through subprocess.run:
\* exit status 0, a non-zero exit status, or the executable is not in PATH.
CliOutcomes == {"ok", "nonzero", "notfound"}

VARIABLES
    program,    \* which of the two programs runs: "initializer" or "client"
    environ,    \* os.environ of the run
    dev,        \* the device's configuration
    pass,       \* which run against this device this is (1, 2, ...)
    applied,    \* initializer: the sections the previous run wrote with success
    log,        \* what the run did, in order: the initializer's pass; in the
                \* client the last step (bootstrap or command), until the
                \* operator types again
    ipc,        \* initializer: position in main()
    iface,      \* the transport: "none", "open" or "closed"
    exitCode,   \* the process exit status
    RegionCode, \* client: TRUE when the import of the RegionCode enum succeeded
    cpc,        \* client: position in main()
    lpos,       \* client: list_channels, the slot whose line is printed next
    connected,  \* client: self.connected
    current_channel, \* client: self.current_channel
    buf,        \* client: readline's line buffer, typed and not yet submitted
    term,       \* client: the last line of the terminal
    hpc,        \* client: position of on_message_received on the event thread
    packet,     \* client: the packet on_message_received is printing, if any
    waiting     \* client: TRUE while on_message_received runs, if it was entered
                \* with input("> ") waiting and input() has waited ever since

initializerVars == <<ipc, applied>>
clientVars == <<RegionCode, cpc, lpos, connected, current_channel, buf, term, hpc, packet,
                waiting>>
vars == <<program, environ, dev, pass, log, iface, exitCode, initializerVars, clientVars>>

\* ------------------------------------------------------------- the run log
Entry(section, kind, value) == [section |-> section, kind |-> kind, value |-> value]

\* A write that reached the device or the CLI: applied, or issued and refused.
WriteKinds == {"write", "writefail"}

Entries(l) == { l[i] : i \in 1..Len(l) }
Written(l) == { e.section : e \in { x \in Entries(l) : x.kind = "write" } }

\* ------------------------------------------------- initializer: helpers
env(name, default) ==
    IF environ[name] \in {"", None} THEN default ELSE environ[name]

lower(s) ==
    CASE s = "TRUE" -> "true"
      [] s = "True" -> "true"
      [] OTHER -> s

bool_env(name, default) ==
    IF env(name, None) = None THEN default
    ELSE lower(env(name, None)) \in {"1", "true", "yes", "on"}

\* The log entry of one CLI write of `value` to `section`, given the outcome.
CliEntry(section, value, outcome) ==
    CASE outcome = "ok" -> Entry(section, "write", value)
      [] outcome = "nonzero" -> Entry(section, "writefail", value)
      [] OTHER -> Entry(section, "error", value)

\* The client as it stands while the initializer runs, and the reverse.
ClientIdle ==
    /\ RegionCode = TRUE
    /\ cpc = "start"
    /\ lpos = 0
    /\ connected = FALSE
    /\ current_channel = <<"Unnamed", "channel", "0">>
    /\ buf = <<>>
    /\ term = <<>>
    /\ hpc = "idle"
    /\ packet = None
    /\ waiting = FALSE

InitializerInit ==
    /\ program = "initializer"
    /\ environ \in Environments
    /\ dev \in { d \in Devices : d.channels = FreshChannels }
    /\ pass = 1
    /\ applied = {}
    /\ log = <<>>
    /\ ipc = "start"
    /\ iface = "none"
    /\ exitCode = 0
    /\ ClientIdle

\* main(): iface = get_interface(), sys.exit(2) when it raises.
get_interface ==
    /\ program = "initializer"
    /\ ipc = "start"
    /\ \E ok \in BOOLEAN :
        IF ok
        THEN /\ iface' = "open"
             /\ ipc' = "hwmodel"
             /\ exitCode' = exitCode
        ELSE /\ iface' = iface
             /\ ipc' = "done"
             /\ exitCode' = 2
    /\ UNCHANGED <<program, environ, dev, pass, applied, log, clientVars>>

\* main(), lines 221-226: print the hardware model of the local node.  This
\* runs after the connection and before the try block: an error here (a node
\* record without 'num' or 'user') is caught by nothing.
print_hwModel ==
    /\ ipc = "hwmodel"
    /\ \E ok \in BOOLEAN :
        IF ok
        THEN /\ ipc' = "owner"
             /\ exitCode' = exitCode
        ELSE /\ ipc' = "done"
             /\ exitCode' = 1
    /\ UNCHANGED <<program, environ, dev, pass, applied, log, iface, clientVars>>

\* An exception raised inside main()'s try block: logged, sys.exit(3), and
\* the finally clause runs next.
Raised(entry) ==
    /\ log' = Append(log, entry)
    /\ ipc' = "finally"
    /\ exitCode' = 3

\* A variant of After in which the role step comes before the region step.
AfterRoleFirst(step) ==
    CASE step = "owner" -> "role"
      [] step = "role" -> "region"
      [] step = "region" -> "position"
      [] step = "position" -> "wifi"
      [] step = "wifi" -> "channel"

\* main(), lines 229-237: the step that follows each step of the try block.
After(step) ==
    CASE step = "owner" -> "region"
      [] step = "region" -> "role"
      [] step = "role" -> "position"
      [] step = "position" -> "wifi"
      [] step = "wifi" -> "channel"

set_owner ==
    /\ ipc = "owner"
    /\ LET long_name == env("MESHTASTIC_OWNER_LONG", None)
           short_name == env("MESHTASTIC_OWNER_SHORT", None)
       IN IF long_name = None /\ short_name = None
          THEN /\ log' = Append(log, Entry("owner", "skip", None))
               /\ ipc' = After("owner")
               /\ UNCHANGED <<dev, exitCode>>
          ELSE \E ok \in BOOLEAN :
                IF ok
                THEN /\ dev' = [dev EXCEPT !.owner = <<long_name, short_name>>]
                     /\ log' = Append(log, Entry("owner", "write", <<long_name, short_name>>))
                     /\ ipc' = After("owner")
                     /\ exitCode' = exitCode
                ELSE /\ Raised(Entry("owner", "writefail", <<long_name, short_name>>))
                     /\ dev' = dev
    /\ UNCHANGED <<program, environ, pass, applied, iface, clientVars>>

\* What `meshtastic --set lora.region <value>` leaves on the device.
CliSetRegion(d, value, outcome) ==
    IF outcome = "ok" /\ value \in RegionNames
    THEN [d EXCEPT !.region = value]
    ELSE d

initializer_set_region ==
    /\ ipc = "region"
    /\ LET desired_region == env("MESHTASTIC_REGION", None)
       IN IF desired_region = None
          THEN /\ log' = Append(log, Entry("region", "skip", None))
               /\ dev' = dev
          ELSE \E outcome \in CliOutcomes :
                /\ log' = Append(log, CliEntry("region", desired_region, outcome))
                /\ dev' = CliSetRegion(dev, desired_region, outcome)
    /\ ipc' = After("region")
    /\ UNCHANGED <<program, environ, pass, applied, iface, exitCode, clientVars>>

CliSetRole(d, value, outcome) ==
    IF outcome = "ok" THEN [d EXCEPT !.role = value] ELSE d

set_role ==
    /\ ipc = "role"
    /\ LET desired_role == env("MESHTASTIC_DEVICE_ROLE", None)
       IN IF desired_role = None
          THEN UNCHANGED <<log, dev>>
          ELSE IF desired_role \notin valid_roles
          THEN /\ log' = Append(log, Entry("role", "invalid", desired_role))
               /\ dev' = dev
          ELSE \E outcome \in CliOutcomes :
                /\ log' = Append(log, CliEntry("role", desired_role, outcome))
                /\ dev' = CliSetRole(dev, desired_role, outcome)
    /\ ipc' = After("role")
    /\ UNCHANGED <<program, environ, pass, applied, iface, exitCode, clientVars>>

\* set_position_broadcast hands the Python bool `enabled` to subprocess.run as
\* an argument: subprocess raises TypeError before it starts the CLI, and the
\* step's `except Exception` logs it.  The step runs whether or not
\* MESHTASTIC_POSITION_BROADCAST is set.
set_position_broadcast ==
    /\ ipc = "position"
    /\ LET enabled == bool_env("MESHTASTIC_POSITION_BROADCAST", FALSE)
       IN log' = Append(log, Entry("position", "error", enabled))
    /\ ipc' = After("position")
    /\ UNCHANGED <<program, environ, dev, pass, applied, iface, exitCode, clientVars>>

CliSetWifi(d, value, outcome) ==
    IF outcome = "ok" THEN [d EXCEPT !.wifi = value] ELSE d

\* Without an SSID set_wifi writes network.wifi_enabled=false and returns
\* whatever the CLI's exit status; if starting the CLI raises, the error is
\* logged and control falls into the branch that configures the SSID, where
\* subprocess.run raises TypeError on the None argument.
set_wifi ==
    /\ ipc = "wifi"
    /\ LET ssid == env("MESHTASTIC_WIFI_SSID", None)
           psk == env("MESHTASTIC_WIFI_PSK", None)
       IN \E outcome \in CliOutcomes :
            IF ssid = None
            THEN /\ dev' = CliSetWifi(dev, <<"false", dev.wifi[2], dev.wifi[3]>>, outcome)
                 /\ log' = IF outcome = "notfound"
                           THEN log \o << Entry("wifi", "error", <<"false">>),
                                          Entry("wifi", "error", <<"true", None>>) >>
                           ELSE Append(log, CliEntry("wifi", <<"false">>, outcome))
            ELSE LET value == IF psk = None THEN <<"true", ssid, dev.wifi[3]>>
                                           ELSE <<"true", ssid, psk>>
                     sent == IF psk = None THEN <<"true", ssid>> ELSE <<"true", ssid, psk>>
                 IN /\ dev' = CliSetWifi(dev, value, outcome)
                    /\ log' = Append(log, CliEntry("wifi", sent, outcome))
    /\ ipc' = After("wifi")
    /\ UNCHANGED <<program, environ, pass, applied, iface, exitCode, clientVars>>

\* int() of the text of MESHTASTIC_CHANNEL_INDEX.
IsInt(s) == s \in {"0", "1", "2"}

\* main(), lines 235-241.  resolve_psk is defined nowhere in the program: the
\* call raises NameError (or int() raises ValueError first), so set_channel
\* and iface.waitForConfig() are never reached.
channel_step ==
    /\ ipc = "channel"
    /\ LET index_text == env("MESHTASTIC_CHANNEL_INDEX", "0")
       IN IF ~IsInt(index_text)
          THEN Raised(Entry("channel", "error", "ValueError"))
          ELSE Raised(Entry("channel", "error", "NameError"))
    /\ UNCHANGED <<program, environ, dev, pass, applied, iface, clientVars>>

\* The steps main() runs inside its try block.
TrySteps == {"owner", "region", "role", "position", "wifi", "channel"}

\* Ctrl-C while main() runs.  Inside the try block it is logged as
\* "Interrupted by user" and the finally clause runs; before the try block
\* nothing catches it.
initializer_KeyboardInterrupt ==
    /\ ipc \in TrySteps \cup {"hwmodel"}
    /\ IF ipc \in TrySteps
       THEN /\ ipc' = "finally"
            /\ exitCode' = exitCode
       ELSE /\ ipc' = "done"
            /\ exitCode' = 130
    /\ UNCHANGED <<program, environ, dev, pass, applied, log, iface, clientVars>>

\* main()'s finally clause: iface.close(), errors of close() ignored.
finally_close ==
    /\ ipc = "finally"
    /\ iface' = "closed"
    /\ ipc' = "done"
    /\ UNCHANGED <<program, environ, dev, pass, applied, log, exitCode, clientVars>>

\* The operator runs the initializer again, same environment, same device.
rerun_initializer ==
    /\ ipc = "done"
    /\ pass < MaxPasses
    /\ pass' = pass + 1
    /\ applied' = Written(log)
    /\ log' = <<>>
    /\ ipc' = "start"
    /\ iface' = "none"
    /\ exitCode' = 0
    /\ UNCHANGED <<program, environ, dev, clientVars>>

InitializerNext ==
    \/ get_interface
    \/ print_hwModel
    \/ set_owner
    \/ initializer_set_region
    \/ set_role
    \/ set_position_broadcast
    \/ set_wifi
    \/ channel_step
    \/ initializer_KeyboardInterrupt
    \/ finally_close
    \/ rerun_initializer

InitializerSpec == InitializerInit /\ [][InitializerNext]_vars

\* ================================================================ client
\* The initializer as it stands while the client runs.
InitializerIdle == ipc = "start" /\ applied = {}

\* The lines the operator may type, word by word; Enter may be pressed after
\* any word, so every prefix of a line is an input line too.
Lines ==
    { <<"exit">>, <<"list">>, <<"list_regions">>, <<"history">>,
      <<"set_channel", "Ops">>,
      <<"set_region", "EU868">>, <<"set_region", "EU", "x">>, <<"set_region", "UNSET">>,
      <<"send", "hi">>,
      <<"add_channel", "Ops", "random", "on", "off">> }

IsPrefix(p, l) == Len(p) <= Len(l) /\ SubSeq(l, 1, Len(p)) = p

\* Packets the transport may publish on meshtastic.receive.data: a text
\* message, a packet of another port, and a packet whose 'decoded' is None.
Packets == {"text", "other", "bad"}

Prompt == "> "

\* The client reads MESHTASTIC_REGION only.  "EU" stands for every token
\* that set_region refuses as no member of RegionCode.
ClientEnvironments ==
    { e \in Environments :
        /\ \A k \in DOMAIN e : k # "MESHTASTIC_REGION" => e[k] = None
        /\ e["MESHTASTIC_REGION"] \in {None, "", "EU", "EU868", " EU868 "} }

ClientInit ==
    /\ program = "client"
    /\ environ \in ClientEnvironments
    /\ dev \in Devices
    /\ pass = 1
    /\ log = <<>>
    /\ iface = "none"
    /\ exitCode = 0
    /\ InitializerIdle
    /\ RegionCode \in BOOLEAN
    /\ cpc = "start"
    /\ lpos = 0
    /\ connected = FALSE
    /\ current_channel = <<"Unnamed", "channel", "0">>
    /\ buf = <<>>
    /\ term = <<>>
    /\ hpc = "idle"
    /\ packet = None
    /\ waiting = FALSE

\* str.strip() on the region texts of the model.
strip(s) == IF s = " EU868 " THEN "EU868" ELSE s

\* ch.settings.name or f"Unnamed channel {ch.index}"
ChannelName(channels, i) ==
    IF channels[i].name = <<>>
    THEN <<"Unnamed", "channel", ToString(i - 1)>>
    ELSE channels[i].name

\* MeshtasticClient.connect, lines 86-90: the transport is created (and
\* main() returns when that fails).  The handlers are not subscribed yet.
connect ==
    /\ program = "client"
    /\ cpc = "start"
    /\ \E ok \in BOOLEAN :
        IF ok
        THEN /\ iface' = "open"
             /\ cpc' = "subscribe"
        ELSE /\ cpc' = "done"
             /\ iface' = iface
    /\ waiting' = FALSE
    /\ UNCHANGED <<program, environ, dev, pass, log, exitCode, initializerVars, RegionCode,
                   lpos, connected, current_channel, buf, term, hpc, packet>>

\* MeshtasticClient.connect, lines 91-95: pub.subscribe of both handlers,
\* then connected = True.
subscribe ==
    /\ cpc = "subscribe"
    /\ connected' = TRUE
    /\ cpc' = "bootstrap"
    /\ UNCHANGED <<program, environ, dev, pass, log, iface, exitCode, initializerVars, RegionCode,
                   lpos, current_channel, buf, term, hpc, packet, waiting>>

\* What the open transport publishes around connect(): the
\* connection-established event, once, and a text message that arrives
\* before the handlers are subscribed.  pubsub hands a message to the
\* listeners subscribed at that moment; with none it is dropped.
EarlyTopics == {"established", "text"}

publish_around_connect ==
    /\ iface = "open"
    /\ cpc \in {"subscribe", "bootstrap"}
    /\ \E topic \in EarlyTopics :
        /\ \A e \in Entries(log) : ~(e.section = "event" /\ e.value = topic)
        /\ topic = "text" => ~connected
        /\ log' = Append(log, Entry("event",
                                    IF connected THEN "delivered" ELSE "missed", topic))
    /\ UNCHANGED <<program, environ, dev, pass, iface, exitCode, initializerVars, clientVars>>

\* MeshtasticClient.set_region(region_code), appending to the log l.
client_set_region(l, region_code) ==
    IF ~connected
    THEN /\ log' = Append(l, Entry("print", "not connected", None))
         /\ dev' = dev
    ELSE IF ~RegionCode
    THEN /\ log' = Append(l, Entry("region", "unsupported", region_code))
         /\ dev' = dev
    ELSE IF region_code \notin RegionNames \/ region_code = "UNSET"
    THEN /\ log' = Append(l, Entry("region", "invalid", region_code))
         /\ dev' = dev
    ELSE \E ok \in BOOLEAN :
            IF ok
            THEN /\ log' = Append(l, Entry("region", "write", region_code))
                 /\ dev' = [dev EXCEPT !.region = region_code]
            ELSE /\ log' = Append(l, Entry("region", "writefail", region_code))
                 /\ dev' = dev

\* MeshtasticClient.bootstrap_region_from_env.  The text of the method ends in
\* a repeated fragment (lines 120-123 repeat lines 116-119); it is read once.
\* Reading the device's current region may raise; the error is passed over
\* (recorded here as "unobserved", the program prints nothing) and the method
\* goes on to set_region.
bootstrap_region_from_env ==
    /\ cpc = "bootstrap"
    /\ LET raw == environ["MESHTASTIC_REGION"]
           region_code == strip(raw)
       IN IF raw \in {None, ""}
          THEN UNCHANGED <<log, dev>>
          ELSE IF ~RegionCode
          THEN /\ log' = Append(log, Entry("region", "unsupported", region_code))
               /\ dev' = dev
          ELSE \E observed \in BOOLEAN :
                IF ~observed
                THEN client_set_region(
                         Append(log, Entry("region", "unobserved", region_code)),
                         region_code)
                ELSE IF dev.region = region_code
                THEN /\ log' = Append(log, Entry("region", "skip", region_code))
                     /\ dev' = dev
                ELSE client_set_region(log, region_code)
    /\ cpc' = "intro"
    /\ waiting' = FALSE
    /\ UNCHANGED <<program, environ, pass, iface, exitCode, initializerVars, RegionCode, lpos,
                   connected, current_channel, buf, term, hpc, packet>>

\* MeshtasticClient.list_channels, first part: the header line, and the
\* "No channels found." line when the list is empty.  `listing` is where
\* main() stands while the lines are printed, `after` where it goes on.
list_channels_begin(listing, after) ==
    /\ term' = IF dev.channels = <<>> /\ after = "prompt" THEN <<Prompt>> ELSE <<>>
    /\ IF dev.channels = <<>>
       THEN /\ cpc' = after
            /\ lpos' = 0
       ELSE /\ cpc' = listing
            /\ lpos' = 1

\* main(), line 243: the channel list printed before the first prompt.
intro_list_channels ==
    /\ cpc = "intro"
    /\ list_channels_begin("intro_list", "help")
    /\ waiting' = FALSE
    /\ UNCHANGED <<program, environ, dev, pass, log, iface, exitCode, initializerVars, RegionCode,
                   connected, current_channel, buf, hpc, packet>>

\* MeshtasticClient.list_channels, the loop: one line per slot.
list_channels_line ==
    /\ cpc \in {"intro_list", "cmd_list"}
    /\ IF lpos < Len(dev.channels)
       THEN /\ lpos' = lpos + 1
            /\ cpc' = cpc
            /\ term' = <<>>
       ELSE /\ lpos' = 0
            /\ cpc' = IF cpc = "intro_list" THEN "help" ELSE "prompt"
            /\ term' = IF cpc = "intro_list" THEN <<>> ELSE <<Prompt>>
    /\ waiting' = FALSE
    /\ UNCHANGED <<program, environ, dev, pass, log, iface, exitCode, initializerVars, RegionCode,
                   connected, current_channel, buf, hpc, packet>>

\* main(), lines 244-257: the help text, then the first input("> ").
print_help ==
    /\ cpc = "help"
    /\ cpc' = "prompt"
    /\ term' = <<Prompt>>
    /\ waiting' = FALSE
    /\ UNCHANGED <<program, environ, dev, pass, log, iface, exitCode, initializerVars, RegionCode,
                   lpos, connected, current_channel, buf, hpc, packet>>

\* The operator types one more word of a line; readline stores it in its
\* line buffer and echoes it where the terminal's cursor stands.
type_word ==
    /\ cpc = "prompt"
    /\ \E l \in Lines : \E n \in 1..Len(l) :
        /\ n = Len(buf) + 1
        /\ IsPrefix(buf, l)
        /\ buf' = Append(buf, l[n])
        /\ term' = Append(term, l[n])
    /\ log' = <<>>
    /\ UNCHANGED <<program, environ, dev, pass, iface, exitCode, initializerVars, RegionCode,
                   cpc, lpos, connected, current_channel, hpc, packet, waiting>>

\* What every command that returns to the prompt in one step does: the line
\* is taken from readline, the output is printed and input("> ") prompts again.
BackToPrompt ==
    /\ cpc' = "prompt"
    /\ buf' = <<>>
    /\ term' = <<Prompt>>
    /\ lpos' = lpos

\* Where an exception that nothing in the loop catches takes main(): out of
\* the while loop, past `except KeyboardInterrupt`, into the finally clause.
Uncaught ==
    /\ cpc' = "finally"
    /\ exitCode' = 1
    /\ buf' = <<>>
    /\ term' = <<>>
    /\ lpos' = lpos

\* The branch of main()'s if/elif chain an input line takes.
Branch(command) ==
    CASE command = <<"exit">> -> "exit"
      [] command = <<"list">> -> "list"
      [] command = <<"list_regions">> -> "list_regions"
      [] Len(command) >= 2 /\ command[1] = "set_channel" -> "set_channel"
      [] Len(command) >= 2 /\ command[1] = "set_region" -> "set_region"
      [] Len(command) >= 2 /\ command[1] = "send" -> "send"
      [] Len(command) >= 2 /\ command[1] = "add_channel" -> "add_channel"
      [] OTHER -> "unknown"

cmd_exit ==
    /\ cpc = "prompt"
    /\ Branch(buf) = "exit"
    /\ cpc' = "finally"
    /\ buf' = <<>>
    /\ term' = <<>>
    /\ log' = <<>>
    /\ waiting' = FALSE
    /\ UNCHANGED <<program, environ, dev, pass, iface, exitCode, initializerVars, RegionCode,
                   lpos, connected, current_channel, hpc, packet>>

cmd_list ==
    /\ cpc = "prompt"
    /\ Branch(buf) = "list"
    /\ list_channels_begin("cmd_list", "prompt")
    /\ buf' = <<>>
    /\ log' = <<>>
    /\ waiting' = FALSE
    /\ UNCHANGED <<program, environ, dev, pass, iface, exitCode, initializerVars, RegionCode,
                   connected, current_channel, hpc, packet>>

\* list_regions reads RegionCode.__members__ with no check and no handler:
\* when the import of RegionCode failed, RegionCode is None and the read
\* raises AttributeError.
cmd_list_regions ==
    /\ cpc = "prompt"
    /\ Branch(buf) = "list_regions"
    /\ IF RegionCode
       THEN /\ BackToPrompt
            /\ log' = <<Entry("print", "regions", RegionNames \ {"UNSET"})>>
            /\ exitCode' = exitCode
       ELSE /\ Uncaught
            /\ log' = <<Entry("print", "raised", "AttributeError")>>
    /\ waiting' = FALSE
    /\ UNCHANGED <<program, environ, dev, pass, iface, initializerVars, RegionCode,
                   connected, current_channel, hpc, packet>>

\* A variant of cmd_set_channel that takes the name only when a slot of the
\* device carries it.
cmd_set_channel_if_present ==
    /\ cpc = "prompt"
    /\ Branch(buf) = "set_channel"
    /\ current_channel' =
          IF \E i \in 1..Len(dev.channels) : ChannelName(dev.channels, i) = Tail(buf)
          THEN Tail(buf) ELSE current_channel
    /\ log' = <<Entry("print", "default channel", Tail(buf))>>
    /\ BackToPrompt
    /\ waiting' = FALSE
    /\ UNCHANGED <<program, environ, dev, pass, iface, exitCode, initializerVars, RegionCode,
                   connected, hpc, packet>>

cmd_set_channel ==
    /\ cpc = "prompt"
    /\ Branch(buf) = "set_channel"
    /\ current_channel' = Tail(buf)
    /\ log' = <<Entry("print", "default channel", Tail(buf))>>
    /\ BackToPrompt
    /\ waiting' = FALSE
    /\ UNCHANGED <<program, environ, dev, pass, iface, exitCode, initializerVars, RegionCode,
                   connected, hpc, packet>>

\* A variant of cmd_set_region without the check of the number of words.
cmd_set_region_any_arity ==
    /\ cpc = "prompt"
    /\ Branch(buf) = "set_region"
    /\ client_set_region(<<>>, buf[2])
    /\ BackToPrompt
    /\ waiting' = FALSE
    /\ UNCHANGED <<program, environ, pass, iface, exitCode, initializerVars, RegionCode,
                   connected, current_channel, hpc, packet>>

cmd_set_region ==
    /\ cpc = "prompt"
    /\ Branch(buf) = "set_region"
    /\ IF Len(buf) = 2
       THEN client_set_region(<<>>, buf[2])
       ELSE /\ log' = <<Entry("print", "usage", "set_region")>>
            /\ dev' = dev
    /\ BackToPrompt
    /\ waiting' = FALSE
    /\ UNCHANGED <<program, environ, pass, iface, exitCode, initializerVars, RegionCode,
                   connected, current_channel, hpc, packet>>

\* The slots of the list whose displayed name is channel_name.
Matching(channels, channel_name) ==
    { i \in 1..Len(channels) : ChannelName(channels, i) = channel_name }

\* A variant of Lowest: the loop without its break, which keeps the last match.
Highest(S) == CHOOSE i \in S : \A j \in S : i >= j

Lowest(S) == CHOOSE i \in S : \A j \in S : i <= j

\* MeshtasticClient.send_message(message, channel_name)
send_message(message, channel_name) ==
    IF ~connected
    THEN log' = <<Entry("print", "not connected", None)>>
    ELSE IF Matching(dev.channels, channel_name) = {}
    THEN log' = <<Entry("print", "not found", channel_name)>>
    ELSE LET channel_index == Lowest(Matching(dev.channels, channel_name)) - 1
         IN \E ok \in BOOLEAN :
              log' = <<Entry("send", IF ok THEN "write" ELSE "writefail",
                             <<channel_index, message>>)>>

cmd_send ==
    /\ cpc = "prompt"
    /\ Branch(buf) = "send"
    /\ send_message(Tail(buf), current_channel)
    /\ BackToPrompt
    /\ waiting' = FALSE
    /\ UNCHANGED <<program, environ, dev, pass, iface, exitCode, initializerVars, RegionCode,
                   connected, current_channel, hpc, packet>>

\* localNode.addChannel(name, psk): the slot that carries the name, else the
\* lowest free slot, else none (0).
LocateSlot(channels, name) ==
    LET named == { i \in 1..Len(channels) :
                     channels[i].role # "DISABLED" /\ channels[i].name = name }
        free == { i \in 1..Len(channels) : channels[i].role = "DISABLED" }
    IN IF named # {} THEN Lowest(named)
       ELSE IF free # {} THEN Lowest(free)
       ELSE 0

\* psk.encode('utf-8'): the passphrase add_channel hands to the device.
EncodedPsk(psk) == psk

\* MeshtasticClient.add_channel(name, psk, uplink_enabled, downlink_enabled).
\* The text of the method has a try block whose handler is missing: an error
\* of a device call is either reported by the method (handled) or leaves it.
add_channel(name, psk, uplink_enabled, downlink_enabled) ==
    \E created \in BOOLEAN, written \in BOOLEAN, handled \in BOOLEAN :
        LET ch_index == LocateSlot(dev.channels, name)
            sent == [index |-> ch_index - 1, name |-> name, raw |-> psk,
                     psk |-> EncodedPsk(psk)]
            flags == [index |-> ch_index - 1, uplink |-> uplink_enabled,
                      downlink |-> downlink_enabled]
            role == IF dev.channels[ch_index].role = "DISABLED" THEN "SECONDARY"
                    ELSE dev.channels[ch_index].role
        IN IF ~created \/ ch_index = 0
           THEN /\ log' = <<Entry("channel", "writefail", sent)>>
                /\ dev' = dev
                /\ IF handled THEN BackToPrompt /\ exitCode' = exitCode ELSE Uncaught
           ELSE /\ dev' = [dev EXCEPT !.channels[ch_index] =
                              Slot(name, EncodedPsk(psk), uplink_enabled,
                                   downlink_enabled, role)]
                /\ IF written
                   THEN /\ log' = <<Entry("channel", "write", sent),
                                    Entry("settings", "write", flags)>>
                        /\ BackToPrompt
                        /\ exitCode' = exitCode
                   ELSE /\ log' = <<Entry("channel", "write", sent),
                                    Entry("settings", "writefail", flags)>>
                        /\ IF handled THEN BackToPrompt /\ exitCode' = exitCode
                           ELSE Uncaught

cmd_add_channel ==
    /\ cpc = "prompt"
    /\ Branch(buf) = "add_channel"
    /\ IF Len(buf) = 5
       THEN add_channel(<<buf[2]>>, buf[3], lower(buf[4]) = "on", lower(buf[5]) = "on")
       ELSE /\ log' = <<Entry("print", "usage", "add_channel")>>
            /\ dev' = dev
            /\ exitCode' = exitCode
            /\ BackToPrompt
    /\ waiting' = FALSE
    /\ UNCHANGED <<program, environ, pass, iface, initializerVars, RegionCode,
                   connected, current_channel, hpc, packet>>

cmd_unknown ==
    /\ cpc = "prompt"
    /\ Branch(buf) = "unknown"
    /\ log' = <<Entry("print", "unknown command", buf)>>
    /\ BackToPrompt
    /\ waiting' = FALSE
    /\ UNCHANGED <<program, environ, dev, pass, iface, exitCode, initializerVars, RegionCode,
                   connected, current_channel, hpc, packet>>

\* End of input at the prompt: input() raises EOFError, which the loop does
\* not catch.
end_of_input ==
    /\ cpc = "prompt"
    /\ buf = <<>>
    /\ Uncaught
    /\ log' = <<Entry("print", "raised", "EOFError")>>
    /\ waiting' = FALSE
    /\ UNCHANGED <<program, environ, dev, pass, iface, initializerVars, RegionCode,
                   connected, current_channel, hpc, packet>>

\* The steps main() runs inside its try block.
ClientTrySteps == {"intro", "intro_list", "help", "prompt", "cmd_list"}

\* Ctrl-C.  Inside the try block main() prints "Exiting..." and the finally
\* clause runs; connect and bootstrap_region_from_env run before the try
\* block, and their handlers catch Exception, which KeyboardInterrupt is not.
client_KeyboardInterrupt ==
    /\ cpc \in ClientTrySteps \cup {"subscribe", "bootstrap"}
    /\ IF cpc \in ClientTrySteps
       THEN /\ cpc' = "finally"
            /\ exitCode' = exitCode
       ELSE /\ cpc' = "done"
            /\ exitCode' = 130
    /\ buf' = <<>>
    /\ term' = <<>>
    /\ lpos' = 0
    /\ waiting' = FALSE
    /\ UNCHANGED <<program, environ, dev, pass, log, iface, initializerVars, RegionCode,
                   connected, current_channel, hpc, packet>>

\* main()'s finally clause: MeshtasticClient.disconnect.
disconnect ==
    /\ cpc = "finally"
    /\ IF iface # "none"
       THEN /\ iface' = "closed"
            /\ connected' = FALSE
       ELSE UNCHANGED <<iface, connected>>
    /\ cpc' = "done"
    /\ waiting' = FALSE
    /\ UNCHANGED <<program, environ, dev, pass, log, exitCode, initializerVars, RegionCode,
                   lpos, current_channel, buf, term, hpc, packet>>

\* --------------------------------------------- client: the event thread
\* The transport's reader thread publishes while the transport is open and
\* the handlers are subscribed.
Publishing == iface = "open" /\ connected /\ cpc \notin {"start", "done"}

\* on_message_received is entered with a packet: nothing is printed for a
\* packet of another port, and a packet that makes the handler raise goes to
\* the except branch.
on_message_received ==
    /\ Publishing
    /\ hpc = "idle"
    /\ \E p \in Packets :
        /\ packet' = IF p = "other" THEN None ELSE p
        /\ waiting' = (p # "other" /\ cpc = "prompt")
        /\ hpc' = CASE p = "text" -> "erase"
                    [] p = "bad" -> "error"
                    [] OTHER -> "idle"
    /\ UNCHANGED <<program, environ, dev, pass, log, iface, exitCode, initializerVars, RegionCode,
                   cpc, lpos, connected, current_channel, buf, term>>

\* line 143: "\r", len(buffer) + 2 blanks, "\r".  The blanks cover the prompt
\* and as many words as the buffer holds now; what the line shows beyond
\* them stays.
Erased(line, buffer) ==
    IF Len(line) <= Len(buffer) + 1 THEN <<>>
    ELSE SubSeq(line, Len(buffer) + 2, Len(line))

handler_erase ==
    /\ cpc # "done"
    /\ hpc = "erase"
    /\ term' = Erased(term, buf)
    /\ hpc' = "message"
    /\ UNCHANGED <<program, environ, dev, pass, log, iface, exitCode, initializerVars, RegionCode,
                   cpc, lpos, connected, current_channel, buf, packet, waiting>>

\* A variant of handler_print in which the except branch is missing: the
\* error leaves the handler and the publisher drops the subscription.
handler_print_unguarded ==
    /\ cpc # "done"
    /\ hpc \in {"message", "error"}
    /\ IF hpc = "error"
       THEN /\ connected' = FALSE
            /\ hpc' = "idle"
            /\ term' = term
       ELSE /\ connected' = connected
            /\ hpc' = "prompt"
            /\ term' = <<>>
    /\ UNCHANGED <<program, environ, dev, pass, log, iface, exitCode, initializerVars, RegionCode,
                   cpc, lpos, current_channel, buf, packet, waiting>>

\* line 144 (and line 147 in the except branch): one line and a newline.  The
\* handler's thread ends with the process.
handler_print ==
    /\ cpc # "done"
    /\ hpc \in {"message", "error"}
    /\ term' = <<>>
    /\ hpc' = "prompt"
    /\ UNCHANGED <<program, environ, dev, pass, log, iface, exitCode, initializerVars, RegionCode,
                   cpc, lpos, connected, current_channel, buf, packet, waiting>>

\* lines 145 and 148: "> " and readline's buffer, written where the cursor is.
Redrawn(line, buffer) == line \o <<Prompt>> \o buffer

handler_redraw ==
    /\ cpc # "done"
    /\ hpc = "prompt"
    /\ term' = Redrawn(term, buf)
    /\ hpc' = "idle"
    /\ packet' = None
    /\ waiting' = FALSE
    /\ UNCHANGED <<program, environ, dev, pass, log, iface, exitCode, initializerVars, RegionCode,
                   cpc, lpos, connected, current_channel, buf>>

\* The operator starts the client again, same environment, same device, as
\* often as they like: the client keeps nothing from one run to the next.
rerun_client ==
    /\ cpc = "done"
    /\ pass' = pass
    /\ log' = <<>>
    /\ iface' = "none"
    /\ exitCode' = 0
    /\ cpc' = "start"
    /\ lpos' = 0
    /\ connected' = FALSE
    /\ current_channel' = <<"Unnamed", "channel", "0">>
    /\ buf' = <<>>
    /\ term' = <<>>
    /\ hpc' = "idle"
    /\ packet' = None
    /\ waiting' = FALSE
    /\ UNCHANGED <<program, environ, dev, initializerVars, RegionCode>>

ClientNext ==
    \/ connect
    \/ subscribe
    \/ publish_around_connect
    \/ bootstrap_region_from_env
    \/ intro_list_channels
    \/ list_channels_line
    \/ print_help
    \/ type_word
    \/ cmd_exit
    \/ cmd_list
    \/ cmd_list_regions
    \/ cmd_set_channel
    \/ cmd_set_region
    \/ cmd_send
    \/ cmd_add_channel
    \/ cmd_unknown
    \/ end_of_input
    \/ client_KeyboardInterrupt
    \/ disconnect
    \/ on_message_received
    \/ handler_erase
    \/ handler_print
    \/ handler_redraw
    \/ rerun_client

ClientSpec == ClientInit /\ [][ClientNext]_vars

\* ------------------------------------------------ both programs together
Init == InitializerInit \/ ClientInit
Next == InitializerNext \/ ClientNext
Spec == Init /\ [][Next]_vars

\* ==================================================================== claims
Sections == {"owner", "region", "role", "position", "wifi", "channel"}

\* How many writes the run has issued to a section.
NumWrites(l, section) ==
    Cardinality({ i \in 1..Len(l) : l[i].section = section /\ l[i].kind \in WriteKinds })

\* The device already holds what the environment asks for in a section.
DeviceHolds(section) ==
    CASE section = "owner" ->
            /\ ~(env("MESHTASTIC_OWNER_LONG", None) = None
                    /\ env("MESHTASTIC_OWNER_SHORT", None) = None)
            /\ dev.owner = <<env("MESHTASTIC_OWNER_LONG", None),
                             env("MESHTASTIC_OWNER_SHORT", None)>>
      [] section = "region" -> dev.region = env("MESHTASTIC_REGION", None)
      [] section = "role" -> dev.role = env("MESHTASTIC_DEVICE_ROLE", None)
      [] section = "wifi" ->
            /\ env("MESHTASTIC_WIFI_SSID", None) # None
            /\ dev.wifi[1] = "true"
            /\ dev.wifi[2] = env("MESHTASTIC_WIFI_SSID", None)
            /\ env("MESHTASTIC_WIFI_PSK", None) \in {None, dev.wifi[3]}
      [] OTHER -> FALSE

\* C1: idempotence of the configuration pass.  In a second run against the
\* same device with the same environment, no step issues a write to a section
\* that the first run wrote with success and whose desired value the device
\* still holds.
C1_SecondPassWritesNothing ==
    [][ pass >= 2 =>
          \A section \in applied :
              DeviceHolds(section) => NumWrites(log', section) <= NumWrites(log, section)
      ]_vars

\* C2: transport release on every exit path.  Whenever a program has ended
\* after acquiring the transport, the transport's close() has been called.
C2_TransportReleased ==
    (ipc = "done" \/ cpc = "done") /\ iface # "none" => iface = "closed"

\* C3: interactive commands never terminate the session.  The command loop
\* is left only by the exit command, by end-of-input or by an interrupt.
C3_LoopLeftOnlyOnExit ==
    [][ (cpc \in {"prompt", "cmd_list"} /\ cpc' \notin {"prompt", "cmd_list"}) =>
          (cmd_exit \/ end_of_input \/ client_KeyboardInterrupt)
      ]_vars

\* C4: per-section failure isolation.  A pass that ended with a failure of
\* some step (exit status 3) has still gone on to the last section, the
\* channel: no section's failure stops the pass before it.
C4_FailureDoesNotAbortPass ==
    (ipc = "done" /\ exitCode = 3) => \E i \in 1..Len(log) : log[i].section = "channel"

\* C5: passphrase resolution order.  For the raw passphrase "random" the key
\* sent to the device is a generated one, never the text "random"; any other
\* raw passphrase is sent unchanged.
C5_PassphraseResolved ==
    \A e \in Entries(log) :
        e.section = "channel" /\ e.kind \in WriteKinds =>
            IF e.value.raw = "random" THEN e.value.psk # "random"
            ELSE e.value.psk = e.value.raw

\* C6: async-print invariant.  When on_message_received was entered while
\* input() was waiting and finishes with input() still waiting, the last
\* terminal line shows the prompt followed by exactly the typed buffer,
\* whatever keystrokes fell between the handler's steps.
C6_RedrawShowsBuffer ==
    [][ (waiting /\ packet = "text" /\ hpc = "prompt" /\ hpc' = "idle") =>
          term' = <<Prompt>> \o buf'
      ]_vars

\* C7: terminal mutual exclusion.  The command context is never in the
\* middle of a multi-line output (the channel list) while the event context
\* is in the middle of on_message_received's prints.
InputWriting == cpc \in {"intro_list", "cmd_list", "help"}
HandlerWriting == hpc \in {"message", "error", "prompt"}
C7_OneTerminalWriter == ~(InputWriting /\ HandlerWriting)

\* The region normalization the claims describe: a token is trimmed,
\* upper-cased and mapped through the alias table.
RegionAliases == [EU |-> "EU868", AU |-> "ANZ"]
upper(s) ==
    CASE s = "eu868" -> "EU868"
      [] s = "Router" -> "ROUTER"
      [] OTHER -> s
Canonical(token) ==
    LET t == upper(strip(token))
    IN IF t \in DOMAIN RegionAliases THEN RegionAliases[t] ELSE t

\* C8: region alias closure.  When the desired region is an alias, every
\* region write of the initializer's pass carries the canonical code the
\* alias stands for: the write the canonical code itself would give.
C8_AliasWritesCanonical ==
    \A e \in Entries(log) :
        (/\ ipc # "start"
         /\ env("MESHTASTIC_REGION", None) \in DOMAIN RegionAliases
         /\ e.section = "region"
         /\ e.kind \in WriteKinds) =>
            e.value = RegionAliases[env("MESHTASTIC_REGION", None)]

\* C9: region compare-before-write.  A step issues no region write when the
\* desired region, normalized, names the region the device reports.
C9_NoRegionWriteWhenEqual ==
    [][ (env("MESHTASTIC_REGION", None) # None
            /\ Canonical(env("MESHTASTIC_REGION", None)) = dev.region) =>
          NumWrites(log', "region") <= NumWrites(log, "region")
      ]_vars

\* A section's desired value is present in the environment.
Populated(section) ==
    CASE section = "owner" -> env("MESHTASTIC_OWNER_LONG", None) # None
                                 \/ env("MESHTASTIC_OWNER_SHORT", None) # None
      [] section = "region" -> env("MESHTASTIC_REGION", None) # None
      [] section = "role" -> env("MESHTASTIC_DEVICE_ROLE", None) # None
      [] section = "position" -> env("MESHTASTIC_POSITION_BROADCAST", None) # None
      [] section = "wifi" -> env("MESHTASTIC_WIFI_SSID", None) # None
      [] section = "channel" -> env("MESHTASTIC_CHANNEL_NAME", None) # None
                                   \/ env("MESHTASTIC_CHANNEL_PSK", None) # None
      [] OTHER -> FALSE

\* C10: writes only to populated sections.  The initializer's pass issues no
\* write to a section whose desired value is missing or empty.
C10_WritesOnlyPopulated ==
    \A e \in Entries(log) :
        (ipc # "start" /\ e.kind \in WriteKinds) => Populated(e.section)

\* C11: role validation is case-insensitive.  Once the role step has run, a
\* desired role that matches a member of the role set ignoring case has been
\* sent to the device as that member, and any other desired role has only
\* been reported as invalid.
C11_RoleMatchedIgnoringCase ==
    LET r == env("MESHTASTIC_DEVICE_ROLE", None)
    IN (ipc \in {"position", "wifi", "channel"} /\ r # None) =>
          IF upper(r) \in valid_roles
          THEN \E e \in Entries(log) :
                  e.section = "role" /\ e.kind # "invalid" /\ e.value = upper(r)
          ELSE \A e \in Entries(log) : e.section = "role" => e.kind = "invalid"

\* C12: an unrecognized region is a non-fatal skip.  When the desired region,
\* normalized, names no region of the set (or names UNSET), the pass sends no
\* region value to the device: the region step only reports the token.
C12_UnrecognizedRegionNotWritten ==
    LET token == env("MESHTASTIC_REGION", None)
    IN (token # None /\ Canonical(token) \notin RegionNames \ {"UNSET"}) =>
          \A e \in Entries(log) : e.section = "region" => e.kind = "invalid"

\* The name a slot is known by: its own, or "Unnamed channel <index>".
SlotName(slot, index) ==
    IF slot.name = <<>> THEN <<"Unnamed", "channel", ToString(index)>> ELSE slot.name

\* index is the lowest index of a slot known by the name n.
Resolves(channels, n, index) ==
    /\ index + 1 \in 1..Len(channels)
    /\ SlotName(channels[index + 1], index) = n
    /\ \A j \in 0..(index - 1) : SlotName(channels[j + 1], j) # n

NoSlotNamed(channels, n) ==
    \A j \in 1..Len(channels) : SlotName(channels[j], j - 1) # n

\* C13: channel resolution by name in send.  A send command calls sendText
\* exactly once, with the lowest index among the slots known by the current
\* channel reference and with the text typed; when no slot is known by that
\* name it reports that the channel was not found and calls sendText not at
\* all.  Either way the loop prompts again.
C13_SendResolvesLowestIndex ==
    [][ cmd_send =>
          /\ Len(log') = 1
          /\ cpc' = "prompt"
          /\ IF NoSlotNamed(dev.channels, current_channel)
             THEN /\ log'[1].section = "print"
                  /\ log'[1].kind = "not found"
                  /\ log'[1].value = current_channel
             ELSE /\ log'[1].section = "send"
                  /\ Resolves(dev.channels, current_channel, log'[1].value[1])
                  /\ log'[1].value[2] = Tail(buf)
      ]_vars

\* A message went out on the first of two slots that carry the same name.
C13_Witness ==
    /\ cpc = "prompt"
    /\ current_channel = <<"Ops">>
    /\ Cardinality({ i \in 1..Len(dev.channels) : dev.channels[i].name = <<"Ops">> }) >= 2
    /\ \E e \in Entries(log) : e.section = "send" /\ e.kind = "write" /\ e.value[1] = 1

\* C14: connect failure is terminal with a non-zero status.  A program that
\* ended without ever holding the transport has a non-zero exit status and
\* has issued no write.
C14_ConnectFailureExitsNonZero ==
    ((cpc = "done" \/ ipc = "done") /\ iface = "none") =>
        (exitCode # 0 /\ \A e \in Entries(log) : e.kind \notin WriteKinds)

\* The order in which the claims say the sections are processed.
SectionOrder == <<"owner", "region", "role", "position", "wifi", "channel">>
Rank(section) == CHOOSE k \in 1..Len(SectionOrder) : SectionOrder[k] = section

\* C15: fixed section order.  The pass's record lists the sections in the
\* order owner, region, role, position, wifi, channel, and while a step is
\* about to run everything recorded belongs to earlier sections: nothing of
\* its own section or of a later one has been issued yet.
C15_SectionsInOrder ==
    /\ \A i, j \in 1..Len(log) :
          i < j => Rank(log[i].section) <= Rank(log[j].section)
    /\ ipc \in Sections => \A e \in Entries(log) : Rank(e.section) < Rank(ipc)

\* The region was written and, later in the same pass, so was the Wi-Fi.
C15_Witness ==
    \E i, j \in 1..Len(log) :
        /\ i < j
        /\ log[i].section = "region" /\ log[i].kind = "write"
        /\ log[j].section = "wifi" /\ log[j].kind = "write"

\* C16: observation failure skips the section.  When the device's current
\* region could not be read, no region write is issued.
C16_UnobservedRegionNotWritten ==
    (\E e \in Entries(log) : e.section = "region" /\ e.kind = "unobserved") =>
        \A e \in Entries(log) : ~(e.section = "region" /\ e.kind \in WriteKinds)

\* The words main()'s if/elif chain tests for, and the number of words the
\* commands that count their arguments ask for.
CommandWords ==
    {"exit", "list", "list_regions", "set_channel", "set_region", "send", "add_channel"}
WordsAsked == [add_channel |-> 5, set_region |-> 2]
InvalidLine(l) ==
    \/ l = <<>>
    \/ l[1] \notin CommandWords
    \/ l[1] \in DOMAIN WordsAsked /\ Len(l) # WordsAsked[l[1]]

\* The operator presses Enter: the loop takes the line to one of its branches.
Enter ==
    \/ cmd_exit
    \/ cmd_list
    \/ cmd_list_regions
    \/ cmd_set_channel
    \/ cmd_set_region
    \/ cmd_send
    \/ cmd_add_channel
    \/ cmd_unknown

\* C17: invalid input is a no-op with a hint.  For a line whose first word is
\* no command, and for an add_channel or set_region line with the wrong
\* number of words, the loop prints one hint or usage line, leaves the
\* device and the current channel reference as they were, and prompts again.
C17_InvalidInputIsNoOp ==
    [][ (cpc = "prompt" /\ InvalidLine(buf) /\ Enter) =>
          /\ Len(log') = 1
          /\ log'[1].section = "print"
          /\ log'[1].kind \in {"usage", "unknown command"}
          /\ dev' = dev
          /\ current_channel' = current_channel
          /\ cpc' = "prompt"
      ]_vars

\* The usage line of add_channel was printed and the loop prompts again.
C17_Witness ==
    /\ cpc = "prompt"
    /\ buf = <<>>
    /\ log = <<Entry("print", "usage", "add_channel")>>

\* C18: handler failure isolation.  While the process runs, the steps
\* on_message_received takes for a packet that makes it raise report the
\* error in one line and redraw the prompt; they leave the main loop where it
\* is, the transport open, the handler subscribed and the exit status alone,
\* and the handler ends ready for the next packet.
C18_HandlerFailureIsolated ==
    [][ ((packet = "bad" \/ packet' = "bad") /\ hpc' # hpc /\ cpc # "done") =>
          /\ cpc' = cpc
          /\ iface' = iface
          /\ connected' = connected
          /\ exitCode' = exitCode
          /\ hpc = "idle" => hpc' = "error"
          /\ hpc = "error" => (hpc' = "prompt" /\ term' = <<>>)
          /\ hpc = "prompt" => (hpc' = "idle" /\ (Publishing => Publishing'))
      ]_vars

\* The error of a packet was reported while the loop waits at the prompt.
C18_Witness ==
    /\ packet = "bad"
    /\ hpc = "prompt"
    /\ cpc = "prompt"
    /\ Publishing

\* C19: add_channel is a two-step write with the requested flags.  For an
\* add_channel line of five words whose slot was created or located, the
\* slot is the lowest free one when the name is new, its settings are
\* written exactly once with uplink = (u is "on") and downlink = (d is "on"),
\* and when that write fails the operator is told that the change was
\* partially applied.
C19_AddChannelTwoStep ==
    [][ (cmd_add_channel /\ Len(buf) = 5) =>
          \A i \in 1..Len(log') :
              (log'[i].section = "channel" /\ log'[i].kind = "write") =>
                  LET index == log'[i].value.index
                      free == { k \in 0..(Len(dev.channels) - 1) :
                                  dev.channels[k + 1].role = "DISABLED" }
                      settings == { j \in 1..Len(log') : log'[j].section = "settings" }
                  IN /\ NoSlotNamed(dev.channels, <<buf[2]>>) =>
                            (index \in free /\ \A k \in free : index <= k)
                     /\ Cardinality(settings) = 1
                     /\ \A j \in settings :
                            /\ j > i
                            /\ log'[j].value.index = index
                            /\ log'[j].value.uplink = (buf[4] = "on")
                            /\ log'[j].value.downlink = (buf[5] = "on")
                            /\ log'[j].kind = "writefail" =>
                                  \E m \in 1..Len(log') :
                                      /\ log'[m].section = "print"
                                      /\ log'[m].kind = "partially applied"
      ]_vars

\* C20: set_channel changes only the session's channel reference.  A
\* set_channel line makes the words after the command the current reference,
\* whether a slot carries that name or not, and touches nothing of the
\* device; nothing else changes the reference while the session lasts, and a
\* send looks up the reference as it stands.
C20_SetChannelOnlySetsReference ==
    [][ /\ cmd_set_channel =>
              /\ current_channel' = Tail(buf)
              /\ dev' = dev
              /\ \A e \in Entries(log') : e.section = "print"
        /\ current_channel' # current_channel => (cmd_set_channel \/ rerun_client)
        /\ cmd_send =>
              \A e \in Entries(log') :
                  /\ e.section = "print" /\ e.kind = "not found" => e.value = current_channel
                  /\ e.section = "send" =>
                        SlotName(dev.channels[e.value[1] + 1], e.value[1]) = current_channel
      ]_vars

\* The reference names a channel that no slot of the device carries.
C20_Witness ==
    /\ cpc = "prompt"
    /\ current_channel = <<"Ops">>
    /\ NoSlotNamed(dev.channels, <<"Ops">>)
    /\ log = <<Entry("print", "default channel", <<"Ops">>)>>

\* C21: bounded message history.  The session keeps the text messages it
\* received, at most 200 of them, and `history` is a command of the loop: a
\* line that reads `history` is not answered as an unknown command.
C21_HistoryIsACommand ==
    [][ (cpc = "prompt" /\ buf = <<"history">> /\ Enter) =>
          \A e \in Entries(log') : ~(e.section = "print" /\ e.kind = "unknown command")
      ]_vars

\* A call to the device or to the CLI failed: a write was refused or raised,
\* or the CLI could not be started.
DeviceOrCliFailed ==
    \E e \in Entries(log) :
        \/ e.kind = "writefail"
        \/ e.kind = "error" /\ e.section \in {"region", "role", "wifi"}

\* C22: the initializer can succeed.  A run with a well-formed channel index
\* that connected, in which no call to the device or to the CLI failed, and
\* that went on to close the transport ends with exit status 0; status 3 is
\* kept for runs in which a step really failed.
C22_InitializerCanSucceed ==
    (/\ ipc = "done"
     /\ iface = "closed"
     /\ IsInt(env("MESHTASTIC_CHANNEL_INDEX", "0"))
     /\ ~DeviceOrCliFailed) => exitCode = 0

\* C23: no inbound event is lost around connect.  Everything the transport
\* publishes from the moment it exists (the connection-established event, a
\* text message) finds the session's handler subscribed and is delivered.
C23_NoEventLostAroundConnect ==
    \A e \in Entries(log) : e.section = "event" => e.kind = "delivered"
====
